---- MODULE Spec2Model ----
(***************************************************************************)
(* Model of analysis/toys/fit_toys.py: the command-line entry point main,  *)
(* the run function (configuration, model and strategy binding, loading of *)
(* the input toys, the sample/fit loop, the aggregation of the results and *)
(* the write to the output HDF file) and the helpers load_pdfs and         *)
(* get_datasets (Spec; SpecSampling follows get_datasets row by row), and  *)
(* of run and main of analysis/efficiency/model_efficiency.py (SpecEff).   *)
(***************************************************************************)
EXTENDS Integers, Sequences, FiniteSets, TLC

VARIABLES
    config,           \* content of the configuration files given to main
    prior,            \* what the output file held before the first run
    hdf,              \* the output file: tables fit_results and gen_info
    hdf_before,       \* the output file as it was when the current run began
    pc,               \* position of the current run inside main/run
    config_bound,     \* is the local name `config` of run bound?
    models,           \* iteration order of the dict `models`
    fit_strategies,   \* iteration order of the dict `fit_strategies`
    gen_values,       \* dict: generator value name -> value
    fit_models,       \* dict: model name -> loaded factories and constraints
    job_id,           \* job identifier selected before the loop
    seed,             \* seed selected before the loop
    fit_num,          \* loop variable of the sample/fit loop
    mi,               \* index in `models` of the model being fitted
    si,               \* index in `fit_strategies` of the next strategy
    gen_events,       \* dict: N^{source}_{gen} -> list of sample sizes
    fit_results,      \* dict: (model, strategy) -> list of result dicts
    fit_result_frame, \* the table built for persistence
    raised,           \* exception that left run, "none" if run returned
    exit_status,      \* exit_status of main, given to parser.exit at the end
    writes,           \* number of modifications of the output file in this run
    trace,            \* sampler and fit-strategy invocations of this run
    lifelog,          \* what happened to the ROOT objects of this run
    eff_run,          \* a run of analysis/efficiency/model_efficiency.py
    sampling          \* a call of get_datasets, row by row

vars == <<config, prior, hdf, hdf_before, pc, config_bound, models,
          fit_strategies, gen_values, fit_models, job_id, seed, fit_num, mi,
          si, gen_events, fit_results, fit_result_frame, raised, exit_status,
          writes, trace, lifelog, eff_run, sampling>>

\* the variables of the run of fit_toys.py
toyvars == <<config, prior, hdf, hdf_before, pc, config_bound, models,
             fit_strategies, gen_values, fit_models, job_id, seed, fit_num,
             mi, si, gen_events, fit_results, fit_result_frame, raised,
             exit_status, writes, trace, lifelog>>

(***************************************************************************)
(* Bounds of the model.                                                    *)
(***************************************************************************)
\* largest configured number of fits (config['fit']['nfits'])
MaxFits == 2
\* largest value poisson.rvs returns
MaxSample == 2
\* another run is started only while the output file holds at most this
\* many rows of fit results
MaxStored == 1

(***************************************************************************)
(* Program constants.                                                      *)
(***************************************************************************)
\* upper end of random.randint(0, 100000)
RandomSeedMax == 100000

\* the value of a key that a mapping does not have; a key with value v is <<v>>
NoKey == <<>>

Key(v) == <<v>>
\* a missing cell of a data frame (NaN); a present cell v is <<v>>
Missing == <<>>

Cell(v) == <<v>>

Max(a, b) == IF a >= b THEN a ELSE b

Range(s) == {s[i] : i \in DOMAIN s}

\* the sequences that hold every element of S exactly once
Perms(S) == {p \in [1..Cardinality(S) -> S] : Range(p) = S}

RECURSIVE Flatten(_)
Flatten(ss) == IF ss = <<>> THEN <<>> ELSE Head(ss) \o Flatten(Tail(ss))

\* the dict made of a set of <<key, value>> pairs
DictOf(pairs) ==
    [k \in {p[1] : p \in pairs} |-> (CHOOSE p \in pairs : p[1] = k)[2]]

EmptyDict == DictOf({})

(***************************************************************************)
(* The collaborators' registries and the input toys.                       *)
(***************************************************************************)
\* get_global_var('FIT_STRATEGIES'): the registered fit strategies
FIT_STRATEGIES == {"simple", "minos"}

\* the physics factories get_physics_factory knows, by PDF name
PhysicsFactories ==
    DictOf({<<"gauss", [observables |-> {"x"}, fit_parameters |-> {"mu", "sigma"}]>>,
            <<"expo",  [observables |-> {"x"}, fit_parameters |-> {"tau"}]>>,
            <<"poly",  [observables |-> {"y"}, fit_parameters |-> {"c0"}]>>})

\* the parameter actions _config.configure_parameter knows
ParameterActions == {"fix", "gauss"}

\* the toys on disk, by toy name: size of store['data'] and its toy_info
ToyStore ==
    DictOf({<<"toyA", [rows |-> 2,
                       toy_info |-> DictOf({<<"seed", 11>>, <<"jobid", 0>>,
                                            <<"nevents", 2>>, <<"mu", 5>>})]>>,
            <<"toyB", [rows |-> 1,
                       toy_info |-> DictOf({<<"seed", 12>>, <<"jobid", 0>>,
                                            <<"nevents", 1>>, <<"tau", 3>>})]>>})

(***************************************************************************)
(* The configuration files.                                                *)
(***************************************************************************)
Pdf(obs, pdf, pcs) == [obs |-> obs, pdf |-> pdf, pcs |-> pcs]

Element(name, pdfs) == [name |-> name, pdfs |-> pdfs]

\* one entry of 'parameter-constraints': the parameter, the action asked for
\* and whether the values given to the action are well formed
Constraint(param, action, wellformed) ==
    [param |-> param, action |-> action, wellformed |-> wellformed]

Signal == Element("signal", <<Pdf("x", "gauss", <<>>)>>)

Background ==
    Element("background",
            <<Pdf("x", "expo", <<Constraint("tau", "gauss", TRUE),
                                  Constraint("tau", "fix", TRUE)>>)>>)

\* the top-level keys of the configuration that describe a model
ModelSections ==
    DictOf({<<"model",    <<Signal>> >>,
            <<"m1",       <<Signal>> >>,
            <<"m2",       <<Signal, Background>> >>,
            <<"badpdf",   <<Element("signal", <<Pdf("x", "nosuch", <<>>)>>)>> >>,
            <<"badobs",   <<Signal, Element("other", <<Pdf("y", "poly", <<>>)>>)>> >>,
            <<"badparam", <<Element("signal",
                                    <<Pdf("x", "gauss",
                                          <<Constraint("nosuch", "fix", TRUE)>>)>>)>> >>,
            <<"badvalue", <<Element("signal",
                                    <<Pdf("x", "gauss",
                                          <<Constraint("mu", "gauss", FALSE)>>)>>)>> >>})

DataSource(name, source, nevents) ==
    [name |-> name, source |-> source, nevents |-> nevents]

SourceA == DataSource("A", Key("toyA"), 2)

SourceB == DataSource("B", Key("toyB"), 1)

Config(nfits, model_names, strategy_names, data) ==
    [nfits |-> nfits, models |-> model_names, strategies |-> strategy_names,
     data |-> data]

\* configurations with which a run can reach the loop
GoodConfigs ==
    {Config(n, Key(<<"m1">>), Key(<<"simple">>), <<SourceA>>) : n \in 0..MaxFits}
    \cup {Config(n, Key(<<"m1", "m2">>), NoKey, <<SourceA>>) : n \in 1..MaxFits}
    \cup {Config(n, NoKey, Key(<<"simple", "minos">>), <<SourceA>>) : n \in 1..MaxFits}
    \cup {Config(n, Key(<<"m1">>), Key(<<"simple">>), <<SourceA, SourceB>>) :
            n \in 1..MaxFits}
    \cup {Config(1, Key(<<"m1", "m1">>), Key(<<"simple">>), <<SourceA>>)}

\* configurations with which a run stops before the loop
BadConfigs ==
    {Config(1, Key(ms), Key(<<"simple">>), <<SourceA>>) :
        ms \in {<<>>, <<"m1", "m3">>, <<"badpdf">>, <<"m1", "badobs">>,
                <<"badparam">>, <<"badvalue">>}}
    \cup {Config(1, Key(<<"m1">>), Key(ss), <<SourceA>>) :
            ss \in {<<>>, <<"simple", "nosuch">>}}
    \cup {Config(1, Key(<<"m1">>), Key(<<"simple">>), <<d>>) :
            d \in {DataSource("A", NoKey, 2), DataSource("A", Key("toyX"), 2)}}

Configs == GoodConfigs \cup BadConfigs

\* dict.get(key, default) on the 'fit' section
Get(value, default) == IF value = NoKey THEN default ELSE value[1]

(***************************************************************************)
(* load_pdfs                                                               *)
(***************************************************************************)
\* the inner loop over 'parameter-constraints': the first exception raised
\* ("none" if none is) and the constraints collected so far
RECURSIVE ConfigureParameters(_, _, _)
ConfigureParameters(pcs, fit_parameters, constraints) ==
    IF pcs = <<>> THEN [exc |-> "none", constraints |-> constraints]
    ELSE LET pc_ == Head(pcs) IN
         IF pc_.param \notin fit_parameters
         THEN [exc |-> "KeyError", constraints |-> constraints]
         ELSE IF pc_.action \notin ParameterActions
         THEN [exc |-> "KeyError", constraints |-> constraints]
         ELSE IF ~pc_.wellformed
         THEN [exc |-> "ValueError", constraints |-> constraints]
         ELSE ConfigureParameters(
                  Tail(pcs), fit_parameters,
                  IF pc_.action = "gauss"
                  THEN Append(constraints, pc_.param)
                  ELSE constraints)

RECURSIVE LoadElements(_, _, _, _)
LoadElements(elements, model_observables, physics_factories, constraints) ==
    IF elements = <<>>
    THEN [exc |-> "none", physics_factories |-> physics_factories,
          constraints |-> constraints]
    ELSE LET element == Head(elements)
             pdfs == element.pdfs
             known == \A i \in DOMAIN pdfs : pdfs[i].pdf \in DOMAIN PhysicsFactories
             observables ==
                 UNION {PhysicsFactories[pdfs[i].pdf].observables : i \in DOMAIN pdfs}
             fit_parameters ==
                 UNION {PhysicsFactories[pdfs[i].pdf].fit_parameters : i \in DOMAIN pdfs}
             configured ==
                 ConfigureParameters(Flatten([i \in DOMAIN pdfs |-> pdfs[i].pcs]),
                                     fit_parameters, constraints)
             failed(exc) == [exc |-> exc, physics_factories |-> physics_factories,
                             constraints |-> constraints]
         IN  IF ~known THEN failed("ValueError")
             ELSE IF model_observables # NoKey /\ model_observables[1] # observables
             THEN failed("KeyError")
             ELSE IF configured.exc # "none" THEN failed(configured.exc)
             ELSE LoadElements(Tail(elements), Key(observables),
                               Append(physics_factories, element.name),
                               configured.constraints)

load_pdfs(model) == LoadElements(model, NoKey, <<>>, <<>>)

(***************************************************************************)
(* Values the environment supplies.                                        *)
(***************************************************************************)
\* outcomes of _config.load_config
LoadOutcomes == {"ok", "OSError", "ConfigError", "KeyError"}

\* os.environ['PBS_JOBID'], a string as the sequence of its characters
Environs == {NoKey,
             Key(<<"4", "2", ".", "p", "b", "s">>),
             Key(<<"j", "o", "b", ".", "7">>)}

Local == <<"l", "o", "c", "a", "l">>

\* values of random.randint(0, 100000) the model draws
RandomSeeds == {0, RandomSeedMax}

\* values of fit_result.status()
FitStatuses == {0, 1}

\* exceptions a fit strategy raises
FitErrors == {"RuntimeError", "ValueError"}

\* outcomes of _paths.work_on_file
FileOutcomes == {"ok", "OSError"}

(***************************************************************************)
(* main: the exit status for the exception that left run                   *)
(***************************************************************************)
ExitStatus(exc) ==
    CASE exc = "none" -> 0
      [] exc = "KeyError" -> 1
      [] exc = "OSError" -> 2
      [] exc = "ValueError" -> 3
      [] exc = "RuntimeError" -> 4
      [] OTHER -> 128

(***************************************************************************)
(* str.split('.')[0] and int()                                             *)
(***************************************************************************)
RECURSIVE SplitFirst(_, _)
SplitFirst(str, sep) ==
    IF str = <<>> \/ Head(str) = sep THEN <<>>
    ELSE <<Head(str)>> \o SplitFirst(Tail(str), sep)

Digits == DictOf({<<"0", 0>>, <<"1", 1>>, <<"2", 2>>, <<"3", 3>>, <<"4", 4>>,
                  <<"5", 5>>, <<"6", 6>>, <<"7", 7>>, <<"8", 8>>, <<"9", 9>>})

IsInt(str) == str # <<>> /\ \A i \in DOMAIN str : str[i] \in DOMAIN Digits

RECURSIVE IntOf(_)
IntOf(str) ==
    IF str = <<>> THEN 0
    ELSE 10 * IntOf(SubSeq(str, 1, Len(str) - 1)) + Digits[str[Len(str)]]

(***************************************************************************)
(* Dicts of lists (collections.defaultdict(list))                          *)
(***************************************************************************)
AppendTo(dict, key, value) ==
    IF key \in DOMAIN dict
    THEN [dict EXCEPT ![key] = Append(@, value)]
    ELSE [k \in DOMAIN dict \cup {key} |->
            IF k = key THEN <<value>> ELSE dict[k]]

RECURSIVE AppendAll(_, _)
AppendAll(dict, pairs) ==
    IF pairs = <<>> THEN dict
    ELSE AppendAll(AppendTo(dict, Head(pairs)[1], Head(pairs)[2]), Tail(pairs))

(***************************************************************************)
(* Column names                                                            *)
(***************************************************************************)
GenValueName(var_name, source_name) == var_name \o "^{" \o source_name \o "}"

GenEventsName(sample_name) == "N^{" \o sample_name \o "}_{gen}"

NominalName(data_name) == "N^{" \o data_name \o "}_{nominal}"

(***************************************************************************)
(* run, lines 200-220: loading the input toys                              *)
(***************************************************************************)
\* the exception the loop body raises for one source, "none" if none
SourceError(data_source) ==
    IF data_source.source = NoKey THEN "KeyError"
    ELSE IF data_source.source[1] \notin DOMAIN ToyStore THEN "OSError"
    ELSE "none"

\* the first exception of the loop over config['data']
RECURSIVE LoadError(_)
LoadError(data) ==
    IF data = <<>> THEN "none"
    ELSE IF SourceError(Head(data)) # "none" THEN SourceError(Head(data))
    ELSE LoadError(Tail(data))

ToyInfo(data_source) == ToyStore[data_source.source[1]].toy_info

GenValues(data) ==
    DictOf(UNION {{<<GenValueName(var_name, data[i].name), ToyInfo(data[i])[var_name]>> :
                     var_name \in DOMAIN ToyInfo(data[i]) \ {"seed", "jobid", "nevents"}} :
                  i \in DOMAIN data})

\* data: the number of rows of each loaded data frame, by source name
DataFrames(data) ==
    DictOf({<<data[i].name, ToyStore[data[i].source[1]].rows>> : i \in DOMAIN data})

(***************************************************************************)
(* get_datasets: draws[name] is the value poisson.rvs returns for the      *)
(* source.  DataFrame.sample(n) raises ValueError when n is larger than    *)
(* the frame.  The result gives the exception raised ("none" if none), the *)
(* number of rows of the merged dataset and the sample sizes as a list of  *)
(* <<name, size>> in the order of data_info.                               *)
(***************************************************************************)
RECURSIVE SampleSources(_, _, _, _, _)
SampleSources(data_info, data_frames, draws, nrows, sample_sizes) ==
    IF data_info = <<>>
    THEN [exc |-> "none", nrows |-> nrows, sample_sizes |-> sample_sizes]
    ELSE LET data_name == Head(data_info).name
             size == draws[data_name]
         IN  IF size > data_frames[data_name]
             THEN [exc |-> "ValueError", nrows |-> nrows,
                   sample_sizes |-> Append(sample_sizes, <<data_name, size>>)]
             ELSE SampleSources(Tail(data_info), data_frames, draws, nrows + size,
                                Append(sample_sizes, <<data_name, size>>))

get_datasets(data_info, data_frames, draws) ==
    SampleSources(data_info, data_frames, draws, 0, <<>>)

(***************************************************************************)
(* Data frames: a frame is the sequence of its rows, a row maps each       *)
(* column name to a cell; the index of row i is i - 1.                     *)
(***************************************************************************)
Columns(frame) == IF frame = <<>> THEN {} ELSE DOMAIN frame[1]

\* pd.concat([a, b], axis=1): rows are aligned on the index, a row that one
\* frame lacks gets missing cells in that frame's columns
ConcatColumns(a, b) ==
    [i \in 1..Max(Len(a), Len(b)) |->
        [c \in Columns(a) \cup Columns(b) |->
            IF c \in Columns(a)
            THEN IF i <= Len(a) THEN a[i][c] ELSE Missing
            ELSE IF i <= Len(b) THEN b[i][c] ELSE Missing]]

\* pd.DataFrame(dict of scalars, index=[0]): one row
OneRow(dict) == <<[c \in DOMAIN dict |-> Cell(dict[c])]>>

\* pd.concat([frame] * n).reset_index(drop=True)
Repeat(frame, n) == Flatten([i \in 1..n |-> frame])

\* pd.DataFrame(dict of lists)
FrameOfLists(dict) ==
    IF DOMAIN dict = {} THEN <<>>
    ELSE [i \in 1..Len(dict[CHOOSE c \in DOMAIN dict : TRUE]) |->
            [c \in DOMAIN dict |-> Cell(dict[c][i])]]

\* pd.DataFrame(list of dicts)
FrameOfDicts(dicts) ==
    [i \in DOMAIN dicts |-> [c \in DOMAIN dicts[i] |-> Cell(dicts[i][c])]]

(***************************************************************************)
(* run, lines 317-344: the table of the fit results                        *)
(***************************************************************************)
\* one result dict with the two bookkeeping keys set (lines 326-328)
Labelled(fit_res, model_name, fit_strategy) ==
    [c \in DOMAIN fit_res \cup {"model_name", "fit_strategy"} |->
        IF c = "model_name" THEN model_name
        ELSE IF c = "fit_strategy" THEN fit_strategy
        ELSE fit_res[c]]

\* a variant that appends to data_res after the inner loop
DataResOnePerKey(results, items) ==
    [k \in DOMAIN items |->
        Labelled(results[items[k]][Len(results[items[k]])], items[k][1], items[k][2])]

\* data_res: items is the order in which fit_results.items() gives the keys
DataRes(results, items) ==
    Flatten([k \in DOMAIN items |->
                [j \in DOMAIN results[items[k]] |->
                    Labelled(results[items[k]][j], items[k][1], items[k][2])]])

DataGen(values) ==
    DictOf({<<key \o "_{gen}", values[key]>> : key \in DOMAIN values})

NominalYields(data) ==
    DictOf({<<NominalName(data[i].name), data[i].nevents>> : i \in DOMAIN data})

GenFrame(nrows, data_gen, nominal_yields, events) ==
    ConcatColumns(Repeat(ConcatColumns(OneRow(data_gen), OneRow(nominal_yields)),
                         nrows),
                  FrameOfLists(events))

\* fit_result_frame, without the columns of _data.calculate_pulls
FitResultFrame(results, items, values, data, events) ==
    LET data_frame == FrameOfDicts(DataRes(results, items))
        gen_frame == GenFrame(Len(data_frame), DataGen(values),
                              NominalYields(data), events)
    IN  ConcatColumns(gen_frame, data_frame)

(***************************************************************************)
(* run, lines 345-359: the output file                                     *)
(***************************************************************************)
EmptyFile == [fit_results |-> <<>>, gen_info |-> <<>>]

\* HDFStore.append raises ValueError when the frame does not have the
\* columns of the table it is appended to
Appendable(table, frame) == table = <<>> \/ Columns(table) = Columns(frame)

GenInfo(data) ==
    [i \in DOMAIN data |->
        [name |-> data[i].name, source |-> data[i].source[1],
         nevents |-> data[i].nevents]]

\* a variant that appends gen_info whether the file has it or not
ModifyHdfAlways(hdf_file, frame, data) ==
    [fit_results |-> hdf_file.fit_results \o frame,
     gen_info |-> hdf_file.gen_info \o GenInfo(data)]

\* the body of the `with _data.modify_hdf(...)` block
ModifyHdf(hdf_file, frame, data) ==
    [fit_results |-> hdf_file.fit_results \o frame,
     gen_info |-> IF hdf_file.gen_info = <<>>
                  THEN hdf_file.gen_info \o GenInfo(data)
                  ELSE hdf_file.gen_info]

(***************************************************************************)
(* What the output file holds before the first run: nothing, the output of *)
(* an earlier run made with toys whose generator values were different, or *)
(* a table of fit results with other columns.  The file of a run of more   *)
(* than one pass is fresh.                                                 *)
(***************************************************************************)
Priors == {"fresh", "stale", "foreign"}

FitResult(status) == DictOf({<<"fit_status", status>>})

StaleValues(data) ==
    LET values == GenValues(data) IN [key \in DOMAIN values |-> values[key] + 1]

PriorFile(cfg, kind) ==
    LET toy_key == <<Get(cfg.models, <<"model">>)[1],
                     Get(cfg.strategies, <<"simple">>)[1]>>
        results == AppendTo(EmptyDict, toy_key, FitResult(0))
        events == DictOf({<<GenEventsName(cfg.data[i].name), <<1>> >> :
                          i \in DOMAIN cfg.data})
    IN  CASE kind = "fresh" -> EmptyFile
          [] kind = "stale" ->
                [fit_results |-> FitResultFrame(results, <<toy_key>>,
                                                StaleValues(cfg.data), cfg.data,
                                                events),
                 gen_info |-> GenInfo(cfg.data)]
          [] kind = "foreign" ->
                [fit_results |-> FrameOfDicts(DataRes(results, <<toy_key>>)),
                 gen_info |-> GenInfo(cfg.data)]

(***************************************************************************)
(* The state when main calls run.                                          *)
(***************************************************************************)
runvars == <<pc, config_bound, models, fit_strategies, gen_values, fit_models,
             job_id, seed, fit_num, mi, si, gen_events, fit_results,
             fit_result_frame, raised, exit_status, writes, trace, lifelog>>

RunStart ==
    /\ pc = "load_config"
    /\ config_bound = FALSE
    /\ models = <<>>
    /\ fit_strategies = <<>>
    /\ gen_values = EmptyDict
    /\ fit_models = EmptyDict
    /\ job_id = NoKey
    /\ seed = NoKey
    /\ fit_num = 0
    /\ mi = 0
    /\ si = 0
    /\ gen_events = EmptyDict
    /\ fit_results = EmptyDict
    /\ fit_result_frame = <<>>
    /\ raised = "none"
    /\ exit_status = 0
    /\ writes = 0
    /\ trace = <<>>
    /\ lifelog = <<>>

\* model_efficiency.py is not run
EffIdle == [pc |-> "idle"]

\* get_datasets is not followed row by row
SamplingIdle == [pc |-> "idle"]

Init ==
    /\ config \in Configs
    /\ prior \in IF config \in GoodConfigs /\ config.nfits = 1
                  THEN Priors ELSE {"fresh"}
    /\ hdf = PriorFile(config, prior)
    /\ hdf_before = hdf
    /\ RunStart
    /\ eff_run = EffIdle
    /\ sampling = SamplingIdle

\* an exception leaves run
Leave(exc) ==
    /\ raised' = exc
    /\ pc' = "left_run"

SampleEvent(n) ==
    [op |-> "sample", fit_num |-> n, model_name |-> "", fit_name |-> "",
     exc |-> "none", status |-> 0]

FitEvent(n, model_name, fit_name, exc, status) ==
    [op |-> "fit", fit_num |-> n, model_name |-> model_name,
     fit_name |-> fit_name, exc |-> exc, status |-> status]

(***************************************************************************)
(* run, lines 153-170: the configuration is loaded.  OSError and           *)
(* ConfigError are raised again (as OSError and KeyError); a KeyError is   *)
(* logged and the function goes on with `config` unbound.                  *)
(***************************************************************************)
LoadConfig ==
    /\ pc = "load_config"
    /\ \E outcome \in LoadOutcomes :
          CASE outcome = "ok" ->
                  /\ config_bound' = TRUE
                  /\ pc' = "get_models"
                  /\ UNCHANGED raised
            [] outcome = "OSError" ->
                  /\ Leave("OSError")
                  /\ UNCHANGED config_bound
            [] outcome = "ConfigError" ->
                  /\ Leave("KeyError")
                  /\ UNCHANGED config_bound
            [] outcome = "KeyError" ->
                  /\ pc' = "get_models"
                  /\ UNCHANGED <<config_bound, raised>>
    /\ UNCHANGED <<eff_run, sampling, lifelog,
                   config, prior, hdf, hdf_before, models, fit_strategies,
                   gen_values, fit_models, job_id, seed, fit_num, mi, si,
                   gen_events, fit_results, fit_result_frame, exit_status,
                   writes, trace>>

(***************************************************************************)
(* run, lines 171-180: the dict `models`                                   *)
(***************************************************************************)
GetModels ==
    /\ pc = "get_models"
    /\ IF ~config_bound
       THEN Leave("UnboundLocalError") /\ UNCHANGED models
       ELSE LET names == Get(config.models, <<"model">>) IN
            IF \E i \in DOMAIN names : names[i] \notin DOMAIN ModelSections
            THEN Leave("KeyError") /\ UNCHANGED models
            ELSE IF names = <<>>
            THEN Leave("KeyError") /\ UNCHANGED models
            ELSE /\ models' \in Perms(Range(names))
                 /\ pc' = "get_strategies"
                 /\ UNCHANGED raised
    /\ UNCHANGED <<eff_run, sampling, lifelog,
                   config, prior, hdf, hdf_before, config_bound, fit_strategies,
                   gen_values, fit_models, job_id, seed, fit_num, mi, si,
                   gen_events, fit_results, fit_result_frame, exit_status,
                   writes, trace>>

(***************************************************************************)
(* run, lines 181-190: the dict `fit_strategies`                           *)
(***************************************************************************)
GetStrategies ==
    /\ pc = "get_strategies"
    /\ LET names == Get(config.strategies, <<"simple">>) IN
       IF \E i \in DOMAIN names : names[i] \notin FIT_STRATEGIES
       THEN Leave("KeyError") /\ UNCHANGED fit_strategies
       ELSE IF names = <<>>
       THEN Leave("KeyError") /\ UNCHANGED fit_strategies
       ELSE /\ fit_strategies' \in Perms(Range(names))
            /\ pc' = "load_data"
            /\ UNCHANGED raised
    /\ UNCHANGED <<eff_run, sampling, lifelog,
                   config, prior, hdf, hdf_before, config_bound, models,
                   gen_values, fit_models, job_id, seed, fit_num, mi, si,
                   gen_events, fit_results, fit_result_frame, exit_status,
                   writes, trace>>

(***************************************************************************)
(* run, lines 191-220: the input toys and their generator values           *)
(***************************************************************************)
LoadData ==
    /\ pc = "load_data"
    /\ IF LoadError(config.data) # "none"
       THEN Leave(LoadError(config.data)) /\ UNCHANGED gen_values
       ELSE /\ gen_values' = GenValues(config.data)
            /\ pc' = "load_models"
            /\ UNCHANGED raised
    /\ UNCHANGED <<eff_run, sampling, lifelog,
                   config, prior, hdf, hdf_before, config_bound, models,
                   fit_strategies, fit_models, job_id, seed, fit_num, mi, si,
                   gen_events, fit_results, fit_result_frame, exit_status,
                   writes, trace>>

(***************************************************************************)
(* run, lines 221-258: the PDFs of every model.  A ValueError of load_pdfs *)
(* is raised again as KeyError; a KeyError of load_pdfs is not caught.     *)
(***************************************************************************)
LoadModels ==
    /\ pc = "load_models"
    /\ LET loaded == [i \in DOMAIN models |-> load_pdfs(ModelSections[models[i]])] IN
       IF \E i \in DOMAIN models : loaded[i].exc # "none"
       THEN Leave("KeyError") /\ UNCHANGED fit_models
       ELSE /\ fit_models' =
                 DictOf({<<models[i],
                           [physics_factories |-> loaded[i].physics_factories,
                            constraints |-> loaded[i].constraints]>> :
                         i \in DOMAIN models})
            /\ pc' = "set_seed"
            /\ UNCHANGED raised
    /\ UNCHANGED <<eff_run, sampling, lifelog,
                   config, prior, hdf, hdf_before, config_bound, models,
                   fit_strategies, gen_values, job_id, seed, fit_num, mi, si,
                   gen_events, fit_results, fit_result_frame, exit_status,
                   writes, trace>>

(***************************************************************************)
(* run, lines 266-280: the job identifier and the seed.  int() raises      *)
(* ValueError when the job identifier does not start with a number.        *)
(***************************************************************************)
SetSeed ==
    /\ pc = "set_seed"
    /\ \E environ \in Environs :
          IF environ = NoKey
          THEN /\ job_id' = Key(Local)
               /\ \E r \in RandomSeeds : seed' = Key(r)
               /\ pc' = "sample"
               /\ UNCHANGED raised
          ELSE /\ job_id' = environ
               /\ IF IsInt(SplitFirst(environ[1], "."))
                  THEN /\ seed' = Key(IntOf(SplitFirst(environ[1], ".")))
                       /\ pc' = "sample"
                       /\ UNCHANGED raised
                  ELSE /\ Leave("ValueError")
                       /\ UNCHANGED seed
    /\ UNCHANGED <<eff_run, sampling, lifelog,
                   config, prior, hdf, hdf_before, config_bound, models,
                   fit_strategies, gen_values, fit_models, fit_num, mi, si,
                   gen_events, fit_results, fit_result_frame, exit_status,
                   writes, trace>>

(***************************************************************************)
(* run, line 281: `for fit_num in range(nfits)` has another pass to make   *)
(***************************************************************************)
InRangeInclusive(n, nfits) == n <= nfits

InRangeShort(n, nfits) == n < nfits - 1

InRange(n, nfits) == n < nfits

(***************************************************************************)
(* The ROOT objects of the loop: the datasets get_datasets returns, one    *)
(* per entry of its transformers, and the fit result every fit strategy    *)
(* returns.  lifelog keeps, in program order, what is done to them.        *)
(***************************************************************************)
LifeEvent(op, kind, n, model_name, fit_name) ==
    [op |-> op, kind |-> kind, fit_num |-> n, model_name |-> model_name,
     fit_name |-> fit_name]

\* some sequence of the elements of S: the order in which a dict
\* comprehension builds its values
SetToSeq(S) == CHOOSE p \in Perms(S) : TRUE

\* get_datasets, lines 131-133: one dataset per entry of transformers
Datasets(n, ds_names) ==
    LET names == SetToSeq(ds_names)
    IN  [i \in DOMAIN names |-> LifeEvent("create", "dataset", n, names[i], "")]

\* line 305: fit_func is given the dataset of the model
Fitted(n, model_name, fit_name) ==
    LifeEvent("fit", "dataset", n, model_name, fit_name)

\* lines 305-310: the dataset is fitted, the fit result is returned, its
\* status is put into the result dict, the dict is recorded, the fit result
\* is destructed
FitLife(n, model_name, fit_name) ==
    <<Fitted(n, model_name, fit_name),
      LifeEvent("create", "fit_result", n, model_name, fit_name),
      LifeEvent("record", "fit_result", n, model_name, fit_name),
      LifeEvent("release", "fit_result", n, model_name, fit_name)>>

\* a variant that never destructs the dataset
DatasetEndKept(n, model_name, last) == <<>>

\* line 311: when the loop over the strategies is over (last), the dataset
\* is destructed
DatasetEnd(n, model_name, last) ==
    IF last THEN <<LifeEvent("release", "dataset", n, model_name, "")>>
            ELSE <<>>

(***************************************************************************)
(* run, lines 281-298: the head of one pass of the loop: the datasets are  *)
(* sampled and the sample sizes recorded.                                  *)
(***************************************************************************)
Sample ==
    /\ pc = "sample"
    /\ InRange(fit_num, config.nfits)
    /\ \E draws \in [{config.data[i].name : i \in DOMAIN config.data} -> 0..MaxSample] :
          LET sampled == get_datasets(config.data, DataFrames(config.data), draws) IN
          IF sampled.exc # "none"
          THEN /\ Leave(sampled.exc)
               /\ UNCHANGED <<gen_events, mi, si, lifelog>>
          ELSE /\ lifelog' = lifelog \o Datasets(fit_num, DOMAIN fit_models)
               /\ gen_events' =
                    AppendAll(gen_events,
                              [k \in DOMAIN sampled.sample_sizes |->
                                  <<GenEventsName(sampled.sample_sizes[k][1]),
                                    sampled.sample_sizes[k][2]>>])
               /\ mi' = 1
               /\ si' = 1
               /\ pc' = "fit"
               /\ UNCHANGED raised
    /\ trace' = Append(trace, SampleEvent(fit_num))
    /\ UNCHANGED <<eff_run, sampling,
                   config, prior, hdf, hdf_before, config_bound, models,
                   fit_strategies, gen_values, fit_models, job_id, seed,
                   fit_num, fit_results, fit_result_frame, exit_status, writes>>

(***************************************************************************)
(* run, lines 299-312: one invocation of a fit strategy, with the walk of  *)
(* the two inner loops and of the outer loop that follows it.              *)
(***************************************************************************)
\* the walk of the loops after one fit: the next strategy, else the next
\* model, else the next pass of the outer loop
NextFit ==
    IF si < Len(fit_strategies)
    THEN /\ si' = si + 1
         /\ UNCHANGED <<mi, fit_num, pc>>
    ELSE IF mi < Len(models)
    THEN /\ mi' = mi + 1
         /\ si' = 1
         /\ UNCHANGED <<fit_num, pc>>
    ELSE /\ fit_num' = fit_num + 1
         /\ pc' = "sample"
         /\ UNCHANGED <<mi, si>>

\* a variant that logs the exception of the fit strategy and goes on
FitRaisesSwallowed(exc, model_name, fit_name) ==
    /\ trace' = Append(trace, FitEvent(fit_num, model_name, fit_name, exc, 0))
    /\ lifelog' = Append(lifelog, Fitted(fit_num, model_name, fit_name))
    /\ NextFit
    /\ UNCHANGED <<fit_results, raised>>

\* line 305 raises: nothing catches the exception inside run
FitRaises(exc, model_name, fit_name) ==
    /\ Leave(exc)
    /\ trace' = Append(trace, FitEvent(fit_num, model_name, fit_name, exc, 0))
    /\ lifelog' = Append(lifelog, Fitted(fit_num, model_name, fit_name))
    /\ UNCHANGED <<fit_results, fit_num, mi, si>>

\* line 305 returns: lines 306-310, and line 311 after the last strategy
FitReturns(status, model_name, fit_name) ==
    /\ fit_results' = AppendTo(fit_results, <<model_name, fit_name>>,
                               FitResult(status))
    /\ trace' = Append(trace, FitEvent(fit_num, model_name, fit_name,
                                       "none", status))
    /\ lifelog' = lifelog \o FitLife(fit_num, model_name, fit_name)
                          \o DatasetEnd(fit_num, model_name,
                                        si = Len(fit_strategies))
    /\ NextFit
    /\ UNCHANGED raised

Fit ==
    /\ pc = "fit"
    /\ \/ \E exc \in FitErrors : FitRaises(exc, models[mi], fit_strategies[si])
       \/ \E status \in FitStatuses :
             FitReturns(status, models[mi], fit_strategies[si])
    /\ UNCHANGED <<eff_run, sampling,
                   config, prior, hdf, hdf_before, config_bound, models,
                   fit_strategies, gen_values, fit_models, job_id, seed,
                   gen_events, fit_result_frame, exit_status, writes>>

(***************************************************************************)
(* run, lines 281 and 313-315: the loop is over; the two averages divide   *)
(* by config['fit']['nfits'].                                              *)
(***************************************************************************)
LoopOver ==
    /\ pc = "sample"
    /\ ~InRange(fit_num, config.nfits)
    /\ IF config.nfits = 0
       THEN Leave("ZeroDivisionError")
       ELSE pc' = "save" /\ UNCHANGED raised
    /\ UNCHANGED <<eff_run, sampling, lifelog,
                   config, prior, hdf, hdf_before, config_bound, models,
                   fit_strategies, gen_values, fit_models, job_id, seed,
                   fit_num, mi, si, gen_events, fit_results, fit_result_frame,
                   exit_status, writes, trace>>

(***************************************************************************)
(* run, lines 316-368: the table is built and appended to the output file; *)
(* gen_info is written if the file does not have it.  pd.concat of an      *)
(* empty list raises ValueError; an OSError of work_on_file is raised      *)
(* again, a ValueError of the append is raised as RuntimeError.            *)
(***************************************************************************)
Save ==
    /\ pc = "save"
    /\ \E items \in Perms(DOMAIN fit_results) :
          LET frame == FitResultFrame(fit_results, items, gen_values,
                                      config.data, gen_events)
          IN  IF DataRes(fit_results, items) = <<>>
              THEN /\ Leave("ValueError")
                   /\ UNCHANGED <<fit_result_frame, hdf, writes>>
              ELSE /\ fit_result_frame' = frame
                   /\ \E outcome \in FileOutcomes :
                         IF outcome = "OSError"
                         THEN /\ Leave("OSError")
                              /\ UNCHANGED <<hdf, writes>>
                         ELSE IF ~Appendable(hdf.fit_results, frame)
                         THEN /\ Leave("RuntimeError")
                              /\ UNCHANGED <<hdf, writes>>
                         ELSE /\ hdf' = ModifyHdf(hdf, frame, config.data)
                              /\ writes' = writes + 1
                              /\ Leave("none")
    /\ UNCHANGED <<eff_run, sampling, lifelog,
                   config, prior, hdf_before, config_bound, models,
                   fit_strategies, gen_values, fit_models, job_id, seed,
                   fit_num, mi, si, gen_events, fit_results, exit_status, trace>>

(***************************************************************************)
(* main, lines 401-421: the exception that left run gives the exit status. *)
(***************************************************************************)
MainExit ==
    /\ pc = "left_run"
    /\ exit_status' = ExitStatus(raised)
    /\ pc' = "exited"
    /\ UNCHANGED <<eff_run, sampling, lifelog,
                   config, prior, hdf, hdf_before, config_bound, models,
                   fit_strategies, gen_values, fit_models, job_id, seed,
                   fit_num, mi, si, gen_events, fit_results, fit_result_frame,
                   raised, writes, trace>>

(***************************************************************************)
(* main, lines 371-403: the program is run again with the same             *)
(* configuration files and the same output file.                           *)
(***************************************************************************)
Rerun ==
    /\ pc = "exited"
    /\ Len(hdf.fit_results) <= MaxStored
    /\ hdf_before' = hdf
    /\ pc' = "load_config"
    /\ config_bound' = FALSE
    /\ models' = <<>>
    /\ fit_strategies' = <<>>
    /\ gen_values' = EmptyDict
    /\ fit_models' = EmptyDict
    /\ job_id' = NoKey
    /\ seed' = NoKey
    /\ fit_num' = 0
    /\ mi' = 0
    /\ si' = 0
    /\ gen_events' = EmptyDict
    /\ fit_results' = EmptyDict
    /\ fit_result_frame' = <<>>
    /\ raised' = "none"
    /\ exit_status' = 0
    /\ writes' = 0
    /\ trace' = <<>>
    /\ lifelog' = <<>>
    /\ UNCHANGED <<eff_run, sampling,
                   config, prior, hdf>>

Next ==
    \/ LoadConfig
    \/ GetModels
    \/ GetStrategies
    \/ LoadData
    \/ LoadModels
    \/ SetSeed
    \/ Sample
    \/ Fit
    \/ LoopOver
    \/ Save
    \/ MainExit
    \/ Rerun

Spec == Init /\ [][Next]_vars

TypeOK ==
    /\ pc \in {"load_config", "get_models", "get_strategies", "load_data",
               "load_models", "set_seed", "sample", "fit", "save", "left_run",
               "exited"}
    /\ fit_num \in 0..config.nfits
    /\ exit_status \in {0, 1, 2, 3, 4, 128}
    /\ writes \in 0..1

(***************************************************************************)
(* Notions the properties are stated with.                                 *)
(***************************************************************************)
\* number of fit invocations of one pass of the loop
FitsPerTrial == Len(models) * Len(fit_strategies)

\* positions of the trace where a fit strategy returned in pass t
ReturnedFits(t) ==
    {i \in DOMAIN trace :
        trace[i].op = "fit" /\ trace[i].fit_num = t /\ trace[i].exc = "none"}

\* the passes of the loop that were made to their end
FinishedTrials ==
    {t \in 0..(MaxFits + 1) :
        /\ \E i \in DOMAIN trace : trace[i] = SampleEvent(t)
        /\ Cardinality(ReturnedFits(t)) = FitsPerTrial}

\* the current run has changed the output file
Written == writes > 0 \/ hdf # hdf_before

\* the trace from position 1 + t * (FitsPerTrial + 1) on is one whole pass t:
\* the sampler, then FitsPerTrial fits that returned
WholeTrialAt(t) ==
    LET at == t * (FitsPerTrial + 1) + 1 IN
    /\ at + FitsPerTrial <= Len(trace)
    /\ trace[at] = SampleEvent(t)
    /\ \A j \in 1..FitsPerTrial :
          /\ trace[at + j].op = "fit"
          /\ trace[at + j].fit_num = t
          /\ trace[at + j].exc = "none"

\* C1: when run gets to saving the results, the trace of the run is exactly
\* nfits whole passes of the loop, pass 0 to pass nfits - 1 in this order,
\* each made of one call of the sampler followed by the fits: no pass is
\* skipped, made twice or taken up again.
C1_ExactlyNfitsTrials ==
    (pc = "save" \/ fit_result_frame # <<>> \/ Written) =>
        /\ Len(trace) = config.nfits * (FitsPerTrial + 1)
        /\ \A t \in 0..(config.nfits - 1) : WholeTrialAt(t)

C1_Witness ==
    /\ pc = "exited"
    /\ writes = 1
    /\ config.nfits = 2
    /\ FitsPerTrial = 2
    /\ Len(trace) = 6

\* C3: the output file is modified at most once in a run, and only when
\* every configured pass of the loop has been made to its end.
C3_WriteOnceAfterLastTrial ==
    /\ writes <= 1
    /\ Written => Cardinality(FinishedTrials) = config.nfits
    /\ Cardinality(FinishedTrials) < config.nfits => hdf = hdf_before

C3_Witness ==
    /\ writes = 1
    /\ hdf # hdf_before
    /\ config.nfits = 2
    /\ FinishedTrials = {0, 1}

\* C4: when a fit strategy raises, its invocation is the last entry of the
\* trace (no sampling and no fit follows it, in this pass or a later one),
\* run is left with that exception and the output file is as it was when
\* the run began.
C4_FitErrorAborts ==
    \A i \in DOMAIN trace :
        (trace[i].op = "fit" /\ trace[i].exc # "none") =>
            /\ i = Len(trace)
            /\ pc \in {"left_run", "exited"}
            /\ raised = trace[i].exc
            /\ hdf = hdf_before
            /\ writes = 0

C4_Witness ==
    /\ pc = "exited"
    /\ Len(trace) > 3
    /\ trace[Len(trace)].op = "fit"
    /\ trace[Len(trace)].exc = "RuntimeError"
    /\ trace[Len(trace)].fit_num = 1
    /\ Len(models) = 2
    /\ trace[Len(trace)].model_name = models[2]
    /\ hdf = hdf_before

\* the row's model and strategy cells
RowKey(frame, i) == <<frame[i]["model_name"], frame[i]["fit_strategy"]>>

\* the row is the Rank-th row of its model and strategy: the results of one
\* model and strategy are listed in the order of the passes
Rank(frame, i) ==
    Cardinality({j \in 1..i : RowKey(frame, j) = RowKey(frame, i)})

\* the row of pass t (counted from 0), model m and strategy s
RowsOf(frame, t, m, s) ==
    {i \in DOMAIN frame :
        RowKey(frame, i) = <<Cell(m), Cell(s)>> /\ Rank(frame, i) = t + 1}

\* the status the fit of pass t, model m and strategy s returned
StatusOf(t, m, s) ==
    LET i == CHOOSE i \in DOMAIN trace :
                 /\ trace[i].op = "fit"
                 /\ trace[i].fit_num = t
                 /\ trace[i].model_name = m
                 /\ trace[i].fit_name = s
    IN  trace[i].status

\* C2: the table built after T finished passes, with M models and S
\* strategies in the dicts, has T * M * S rows: for every pass, model and
\* strategy exactly one row, which carries that model name, that strategy
\* name and the status that fit returned.
C2_OneRowPerFit ==
    fit_result_frame # <<>> =>
        /\ Len(fit_result_frame) =
               Cardinality(FinishedTrials) * Len(models) * Len(fit_strategies)
        /\ \A t \in FinishedTrials :
           \A m \in Range(models) :
           \A s \in Range(fit_strategies) :
              /\ Cardinality(RowsOf(fit_result_frame, t, m, s)) = 1
              /\ \A i \in RowsOf(fit_result_frame, t, m, s) :
                    fit_result_frame[i]["fit_status"] = Cell(StatusOf(t, m, s))

C2_Witness ==
    /\ pc = "exited"
    /\ writes = 1
    /\ Len(fit_result_frame) = 4
    /\ Len(models) = 2
    /\ FinishedTrials = {0, 1}
    /\ StatusOf(0, models[1], fit_strategies[1]) # StatusOf(1, models[1], fit_strategies[1])
    /\ StatusOf(0, models[1], fit_strategies[1]) # StatusOf(0, models[2], fit_strategies[1])

\* C9 as claimed: in every row of the table the generated-sample-size
\* column of each source holds the size the sampler drew for that source
\* in the pass the row belongs to.
C9_GenSizeOfOwnTrial ==
    fit_result_frame # <<>> =>
        \A i \in DOMAIN fit_result_frame :
        \A d \in DOMAIN config.data :
            LET column == GenEventsName(config.data[d].name) IN
            fit_result_frame[i][column] =
                Cell(gen_events[column][Rank(fit_result_frame, i)])

\* C10 as claimed: every row of the table carries the seed and the job
\* identifier selected before the loop.
C10_RowsCarrySeedAndJobId ==
    fit_result_frame # <<>> =>
        \A i \in DOMAIN fit_result_frame :
            /\ {"seed", "jobid"} \subseteq DOMAIN fit_result_frame[i]
            /\ fit_result_frame[i]["seed"] = Cell(seed[1])
            /\ fit_result_frame[i]["jobid"] = Cell(job_id[1])

\* the output file, as the run found it, has a gen_info record for every
\* configured source and a row whose recorded generator value is not the
\* value loaded from the source's toy
TruthMismatch ==
    /\ LoadError(config.data) = "none"
    /\ {hdf_before.gen_info[i].name : i \in DOMAIN hdf_before.gen_info}
           = {config.data[i].name : i \in DOMAIN config.data}
    /\ \E i \in DOMAIN hdf_before.fit_results :
       \E key \in DOMAIN GenValues(config.data) :
          /\ (key \o "_{gen}") \in DOMAIN hdf_before.fit_results[i]
          /\ hdf_before.fit_results[i][key \o "_{gen}"]
                 # Cell(GenValues(config.data)[key])

\* C5 as claimed: with such an output file no pass of the loop is made,
\* nothing is appended to the file, and a run that got through the loading
\* of the configuration, the toys and the models exits with status 5.
C5_MismatchAbortsWithStatus5 ==
    TruthMismatch =>
        /\ trace = <<>>
        /\ hdf = hdf_before
        /\ (pc = "exited" /\ fit_models # EmptyDict /\ seed # NoKey) =>
               exit_status = 5

\* C6: on an output file that was fresh before the first run, gen_info is
\* either absent or exactly the records of the configuration, one for each
\* source; a run that finds gen_info in the file leaves it as it found it,
\* and a run on a file that already holds fit results, once its table is
\* built and the file can be opened, appends the table and exits with 0.
C6_GenInfoWrittenOnce ==
    (prior = "fresh" /\ LoadError(config.data) = "none") =>
        /\ hdf.gen_info \in {<<>>, GenInfo(config.data)}
        /\ hdf_before.gen_info # <<>> => hdf.gen_info = hdf_before.gen_info
        /\ Written => hdf.gen_info = GenInfo(config.data)
        /\ (/\ hdf_before.fit_results # <<>>
            /\ pc = "exited"
            /\ fit_result_frame # <<>>
            /\ raised # "OSError") =>
               /\ exit_status = 0
               /\ hdf.fit_results = hdf_before.fit_results \o fit_result_frame

C6_Witness ==
    /\ prior = "fresh"
    /\ hdf_before.gen_info # <<>>
    /\ pc = "exited"
    /\ writes = 1
    /\ exit_status = 0
    /\ Len(hdf.fit_results) = 2
    /\ Len(hdf.gen_info) = 2
    /\ hdf.gen_info = hdf_before.gen_info

\* the run stopped in lines 181-190 on a strategy name that FIT_STRATEGIES
\* does not have
UnknownStrategyStopped ==
    /\ pc = "exited"
    /\ config_bound
    /\ models # <<>>
    /\ fit_strategies = <<>>
    /\ \E i \in DOMAIN Get(config.strategies, <<"simple">>) :
          Get(config.strategies, <<"simple">>)[i] \notin FIT_STRATEGIES

\* the run stopped in lines 221-227 on a ValueError of load_pdfs
LoadPdfsValueErrorStopped ==
    /\ pc = "exited"
    /\ fit_strategies # <<>>
    /\ LoadError(config.data) = "none"
    /\ fit_models = EmptyDict
    /\ \E i \in DOMAIN models :
          load_pdfs(ModelSections[models[i]]).exc = "ValueError"
    /\ \A i \in DOMAIN models :
          load_pdfs(ModelSections[models[i]]).exc # "KeyError"

\* C7 as claimed: an unknown strategy name or a ValueError of load_pdfs
\* stops the run before any pass of the loop, with exit status 3.
C7_BindingErrorExits3 ==
    (UnknownStrategyStopped \/ LoadPdfsValueErrorStopped) =>
        /\ trace = <<>>
        /\ exit_status = 3

\* load_config raised ConfigError or KeyError: the run is past the loading
\* with `config` unbound, and not because of an OSError
ConfigLoadFailed ==
    /\ pc # "load_config"
    /\ ~config_bound
    /\ raised # "OSError"

\* C8 as claimed: after such a failure run is left at once with KeyError
\* and main exits with status 1.
C8_ConfigFailureExits1 ==
    ConfigLoadFailed =>
        /\ pc \in {"left_run", "exited"}
        /\ raised = "KeyError"
        /\ pc = "exited" => exit_status = 1

\* the (model, strategy) pairs of the fit invocations of pass t, in the
\* order of the invocations
FitOrder(t) ==
    LET InPass(e) == e.op = "fit" /\ e.fit_num = t
        calls == SelectSeq(trace, InPass)
    IN  [i \in DOMAIN calls |-> <<calls[i].model_name, calls[i].fit_name>>]

\* the pairs in the order of the lists fit.models and fit.strategies
ConfiguredOrder ==
    LET model_names == Get(config.models, <<"model">>)
        strategy_names == Get(config.strategies, <<"simple">>)
    IN  Flatten([i \in DOMAIN model_names |->
                    [j \in DOMAIN strategy_names |->
                        <<model_names[i], strategy_names[j]>>]])

\* C12 as claimed: in every pass that was made to its end the fits are
\* invoked model by model in the order of fit.models and, for each model,
\* strategy by strategy in the order of fit.strategies.
C12_FitsInConfiguredOrder ==
    \A t \in FinishedTrials : FitOrder(t) = ConfiguredOrder

(***************************************************************************)
(* The lives of the ROOT objects.                                          *)
(***************************************************************************)
\* no fit strategy has raised so far in this run
NominalLoop == \A i \in DOMAIN trace : trace[i].exc = "none"

\* the object an event of lifelog is about: a fit event names the strategy
\* that is given the dataset, which is not part of the dataset's identity
ObjectOf(e) ==
    <<e.kind, e.fit_num, e.model_name,
      IF e.kind = "dataset" THEN "" ELSE e.fit_name>>

LiveObjects == {ObjectOf(lifelog[i]) : i \in DOMAIN lifelog}

\* the places of lifelog where op is done to the object o
Places(op, o) ==
    {i \in DOMAIN lifelog : lifelog[i].op = op /\ ObjectOf(lifelog[i]) = o}

\* every place of P comes before every place of Q
Before(P, Q) == \A i \in P, j \in Q : i < j

\* the strategies the dataset o was given to
FittedBy(o) == {lifelog[i].fit_name : i \in Places("fit", o)}

\* C13: while no fit strategy has raised, every dataset and every fit
\* result is created once and destructed at most once, and exactly once as
\* soon as its pass is over, so that nothing of a pass is left when the next
\* one samples; a fit result is destructed after its status was recorded; a
\* dataset is destructed after every strategy was given it, and is given to
\* no strategy afterwards.
C13_ReleasedOncePerTrial ==
    NominalLoop =>
        \A o \in LiveObjects :
            LET created == Places("create", o)
                fitted == Places("fit", o)
                recorded == Places("record", o)
                released == Places("release", o)
            IN  /\ Cardinality(created) = 1
                /\ Cardinality(released) <= 1
                /\ Before(created, fitted \cup recorded \cup released)
                /\ o[2] < fit_num => Cardinality(released) = 1
                /\ o[1] = "fit_result" /\ released # {} =>
                      /\ Cardinality(recorded) = 1
                      /\ Before(recorded, released)
                /\ o[1] = "dataset" /\ released # {} =>
                      /\ FittedBy(o) = Range(fit_strategies)
                      /\ Before(fitted, released)

\* two passes over two models were made and the loop is over: the datasets
\* and the fit results of both passes were destructed
C13_Witness ==
    /\ NominalLoop
    /\ pc = "save"
    /\ fit_num = 2
    /\ Len(models) = 2
    /\ \A t \in 0..1, i \in 1..2 :
          /\ Places("release", <<"dataset", t, models[i], "">>) # {}
          /\ Places("release",
                    <<"fit_result", t, models[i], fit_strategies[1]>>) # {}

(***************************************************************************)
(* analysis/efficiency/model_efficiency.py: run and main.                  *)
(***************************************************************************)
\* the names get_efficiency_model_class knows
EfficiencyModels == {"legendre"}

\* the keys of the input HDF store
InputTrees == {"tree"}

\* the outcomes of efficiency_class.fit
EffFitOutcomes == {"ok", "ValueError", "TypeError", "KeyError", "Exception"}

EffConfigs ==
    [plot : BOOLEAN,
     variables : {<<"x">>, <<"x", "y">>},
     model : {"legendre", "nosuch"},
     tree : {"tree", "notree"}]

\* main calls run: the configuration files and what is on disk
EffStart ==
    [pc : {"load_config"},
     config : EffConfigs,
     config_bound : {FALSE},
     input_data : BOOLEAN,        \* does config['data']['file'] exist?
     efficiency_file : BOOLEAN,   \* does get_efficiency_path(name) exist?
     plots_on_disk : SUBSET {"x", "y"},  \* variables whose plot file exists
     plot_files : {{}},           \* keys of the dict plot_files
     found : {NoKey},             \* what line 99 saw of the efficiency file
     calls : {<<>>},              \* calls made on the efficiency class/model
     saved : {{}},                \* variables whose plot was saved by the run
     raised : {"none"},
     exit_status : {0}]

\* fit_toys.py is not run
ToyIdle ==
    /\ config = Config(0, NoKey, NoKey, <<>>)
    /\ prior = "fresh"
    /\ hdf = EmptyFile
    /\ hdf_before = EmptyFile
    /\ RunStart

InitEff ==
    /\ eff_run \in EffStart
    /\ sampling = SamplingIdle
    /\ ToyIdle

\* an exception leaves run
EffLeave(exc) == [eff_run EXCEPT !.raised = exc, !.pc = "left_run"]

\* run, lines 47-74: as in fit_toys.py, a KeyError of load_config is logged
\* and line 76 then reads the unbound name `config`
EffLoadConfig ==
    /\ eff_run.pc = "load_config"
    /\ \E outcome \in LoadOutcomes :
          eff_run' =
              CASE outcome = "ok" ->
                      [eff_run EXCEPT !.config_bound = TRUE, !.pc = "checks"]
                [] outcome = "OSError" -> EffLeave("OSError")
                [] outcome = "ConfigError" -> EffLeave("KeyError")
                [] outcome = "KeyError" -> EffLeave("UnboundLocalError")
    /\ UNCHANGED <<sampling, toyvars>>

\* run, lines 76-86: the input data must exist; plot_files gets one entry
\* per variable if 'plot' is set; the efficiency class must be known
EffChecks ==
    /\ eff_run.pc = "checks"
    /\ eff_run' =
          IF ~eff_run.input_data THEN EffLeave("OSError")
          ELSE IF eff_run.config.model \notin EfficiencyModels
          THEN [EffLeave("ValueError") EXCEPT
                    !.plot_files = IF eff_run.config.plot
                                   THEN Range(eff_run.config.variables)
                                   ELSE {}]
          ELSE [eff_run EXCEPT
                    !.plot_files = IF eff_run.config.plot
                                   THEN Range(eff_run.config.variables)
                                   ELSE {},
                    !.pc = "decide"]
    /\ UNCHANGED <<sampling, toyvars>>

\* run, lines 89-91: the data are loaded if some configured plot is missing
\* or if the efficiency file exists; otherwise run returns
EffDecide ==
    /\ eff_run.pc = "decide"
    /\ eff_run' =
          IF \/ ~(eff_run.plot_files \subseteq eff_run.plots_on_disk)
             \/ eff_run.efficiency_file
          THEN [eff_run EXCEPT !.pc = "select"]
          ELSE [eff_run EXCEPT !.pc = "left_run"]
    /\ UNCHANGED <<sampling, toyvars>>

\* run, lines 93-98: the data tree is read from the input file
EffSelect ==
    /\ eff_run.pc = "select"
    /\ eff_run' =
          IF eff_run.config.tree \in InputTrees
          THEN [eff_run EXCEPT !.pc = "fit_or_load"]
          ELSE EffLeave("OSError")
    /\ UNCHANGED <<sampling, toyvars>>

\* a variant of line 99 that fits whatever is on disk
ShouldFitAlways(exists) == TRUE

\* run, line 99: `if not os.path.exists(_paths.get_efficiency_path(...))`
ShouldFit(exists) == ~exists

\* run, lines 102-108: the exception of efficiency_class.fit as run raises it
EffFitError(outcome) ==
    CASE outcome \in {"ValueError", "TypeError"} -> "ValueError"
      [] outcome = "KeyError" -> "RuntimeError"
      [] OTHER -> "RuntimeError"

\* run, lines 99-113: the efficiency file is looked for; if it is not there
\* the model is fitted and written to disk, else the model on disk is loaded
EffFitOrLoad ==
    /\ eff_run.pc = "fit_or_load"
    /\ LET seen == [eff_run EXCEPT !.found = Key(eff_run.efficiency_file)] IN
       IF ShouldFit(eff_run.efficiency_file)
       THEN \E outcome \in EffFitOutcomes :
               eff_run' =
                   IF outcome = "ok"
                   THEN [seen EXCEPT
                            !.calls = eff_run.calls \o <<"fit", "write_to_disk">>,
                            !.efficiency_file = TRUE,
                            !.pc = "plot"]
                   ELSE [seen EXCEPT
                            !.calls = Append(eff_run.calls, "fit"),
                            !.raised = EffFitError(outcome),
                            !.pc = "left_run"]
       ELSE eff_run' =
               [seen EXCEPT
                   !.calls = Append(eff_run.calls, "load_efficiency_model"),
                   !.pc = "plot"]
    /\ UNCHANGED <<sampling, toyvars>>

\* run, lines 114-120: the plots of the configured variables are saved
EffPlot ==
    /\ eff_run.pc = "plot"
    /\ eff_run' =
          IF eff_run.plot_files # {}
          THEN [eff_run EXCEPT
                   !.calls = Append(eff_run.calls, "plot"),
                   !.saved = eff_run.plot_files,
                   !.plots_on_disk = eff_run.plots_on_disk
                                         \cup eff_run.plot_files,
                   !.pc = "left_run"]
          ELSE [eff_run EXCEPT !.pc = "left_run"]
    /\ UNCHANGED <<sampling, toyvars>>

\* main, lines 157-171: the exception of run is turned into the exit status
EffExitStatus(exc) ==
    CASE exc = "none" -> 0
      [] exc = "KeyError" -> 1
      [] exc = "OSError" -> 2
      [] exc = "ValueError" -> 3
      [] exc = "RuntimeError" -> 4
      [] OTHER -> 128

EffMainExit ==
    /\ eff_run.pc = "left_run"
    /\ eff_run' = [eff_run EXCEPT !.exit_status = EffExitStatus(eff_run.raised),
                                  !.pc = "exited"]
    /\ UNCHANGED <<sampling, toyvars>>

\* another process writes or removes the efficiency file while run is
\* between its two looks at it (lines 91 and 99)
OtherProcess ==
    /\ eff_run.pc = "select" \/ eff_run.pc = "fit_or_load"
    /\ eff_run' = [eff_run EXCEPT !.efficiency_file = ~eff_run.efficiency_file]
    /\ UNCHANGED <<sampling, toyvars>>

NextEff ==
    \/ EffLoadConfig
    \/ EffChecks
    \/ EffDecide
    \/ EffSelect
    \/ EffFitOrLoad
    \/ EffPlot
    \/ EffMainExit
    \/ OtherProcess

SpecEff == InitEff /\ [][NextEff]_vars

\* C11: when line 99 finds the efficiency file of config['name'] on disk,
\* the run neither fits nor writes an efficiency model: it loads the one on
\* disk, and when it returns it has saved the plots of the configured
\* variables and nothing else.
C11_ExistingModelOnlyReplotted ==
    eff_run.found = Key(TRUE) =>
        /\ "fit" \notin Range(eff_run.calls)
        /\ "write_to_disk" \notin Range(eff_run.calls)
        /\ eff_run.calls[1] = "load_efficiency_model"
        /\ eff_run.pc \in {"left_run", "exited"} =>
              /\ eff_run.saved = IF eff_run.config.plot
                                 THEN Range(eff_run.config.variables)
                                 ELSE {}
              /\ eff_run.calls \in {<<"load_efficiency_model">>,
                                    <<"load_efficiency_model", "plot">>}

\* a run that found the efficiency file, loaded it and saved two plots
C11_Witness ==
    /\ eff_run.pc = "exited"
    /\ eff_run.found = Key(TRUE)
    /\ eff_run.calls = <<"load_efficiency_model", "plot">>
    /\ eff_run.saved = {"x", "y"}

(***************************************************************************)
(* get_datasets (lines 100-134) row by row.  A row of the data frame of a  *)
(* source is <<source name, k>>, its k-th row.                             *)
(***************************************************************************)
\* the data frame loaded for a source: all the rows of its toy
FrameOf(source) ==
    [k \in 1..ToyStore[source.source[1]].rows |-> <<source.name, k>>]

\* a variant of DataFrame.sample that may take a row more than once
PicksWithReplacement(n, size) == [1..size -> 1..n]

\* DataFrame.sample(size) on a frame of n rows, replace=False: the
\* sequences of size different row numbers
Picks(n, size) ==
    {p \in [1..size -> 1..n] : \A i, j \in 1..size : p[i] = p[j] => i = j}

\* the lists of sources get_datasets is called with
DataInfos ==
    {<<SourceA>>, <<SourceB>>, <<SourceA, SourceB>>, <<SourceB, SourceA>>}

\* the call: data_info, the names of the transformers, nothing sampled yet
SamplingStart ==
    [pc : {"sample"},
     data_info : DataInfos,
     transformers : {{"m1"}, {"m1", "m2"}},
     done : {0},                  \* entries of data_info gone through
     dataset : {<<>>},            \* the merged rows
     sample_sizes : {EmptyDict},
     datasets : {EmptyDict},      \* the returned dict, by dataset name
     exc : {"none"}]

InitSampling ==
    /\ sampling \in SamplingStart
    /\ eff_run = EffIdle
    /\ ToyIdle

\* lines 120-129: one pass of the loop over data_info
SampleSource ==
    /\ sampling.pc = "sample"
    /\ sampling.done < Len(sampling.data_info)
    /\ LET data == sampling.data_info[sampling.done + 1]
           frame == FrameOf(data)
           drawn(size) ==
               [n \in DOMAIN sampling.sample_sizes \cup {data.name} |->
                   IF n = data.name THEN size ELSE sampling.sample_sizes[n]]
       IN  \E size \in 0..MaxSample :
              IF size > Len(frame)
              THEN sampling' = [sampling EXCEPT !.sample_sizes = drawn(size),
                                                !.exc = "ValueError",
                                                !.pc = "raised"]
              ELSE \E p \in Picks(Len(frame), size) :
                      sampling' =
                          [sampling EXCEPT
                              !.sample_sizes = drawn(size),
                              !.dataset = sampling.dataset
                                  \o [i \in 1..size |-> frame[p[i]]],
                              !.done = sampling.done + 1]
    /\ UNCHANGED <<eff_run, toyvars>>

\* lines 130-134: every transformer is given the merged rows and its result
\* becomes the dataset data_<ds_name>
SamplingReturn ==
    /\ sampling.pc = "sample"
    /\ sampling.done = Len(sampling.data_info)
    /\ sampling' =
          [sampling EXCEPT
              !.datasets = [ds_name \in sampling.transformers |->
                               [name |-> "data_" \o ds_name,
                                given |-> sampling.dataset]],
              !.pc = "returned"]
    /\ UNCHANGED <<eff_run, toyvars>>

NextSampling ==
    \/ SampleSource
    \/ SamplingReturn

SpecSampling == InitSampling /\ [][NextSampling]_vars

\* the rows of the merged dataset that come from the source called name
RowsFrom(name) ==
    {i \in DOMAIN sampling.dataset : sampling.dataset[i][1] = name}

RECURSIVE SumSizes(_, _)
SumSizes(sizes, names) ==
    IF names = {} THEN 0
    ELSE LET n == CHOOSE n \in names : TRUE
         IN  sizes[n] + SumSizes(sizes, names \ {n})

\* the source the loop of get_datasets stopped at
Current == sampling.data_info[sampling.done + 1]

\* C14: when get_datasets returns, sample_sizes has one natural number per
\* source of data_info; the merged dataset holds, of every source, that
\* number of rows, all of them rows of the source's own frame and no row
\* twice, so that its length is the sum of the sample sizes; every
\* transformer was given the merged dataset.  A sample size larger than the
\* frame of its source makes the call raise ValueError, and only that does.
C14_SampledWithoutReplacement ==
    LET names == {sampling.data_info[i].name : i \in DOMAIN sampling.data_info}
    IN  /\ sampling.pc = "returned" =>
              /\ DOMAIN sampling.sample_sizes = names
              /\ \A i \in DOMAIN sampling.data_info :
                    LET data == sampling.data_info[i] IN
                    /\ sampling.sample_sizes[data.name] \in Nat
                    /\ sampling.sample_sizes[data.name] <= Len(FrameOf(data))
                    /\ Cardinality(RowsFrom(data.name))
                          = sampling.sample_sizes[data.name]
                    /\ \A r \in RowsFrom(data.name) :
                          sampling.dataset[r] \in Range(FrameOf(data))
              /\ \A i, j \in DOMAIN sampling.dataset :
                    sampling.dataset[i] = sampling.dataset[j] => i = j
              /\ Len(sampling.dataset) = SumSizes(sampling.sample_sizes, names)
              /\ \A ds_name \in sampling.transformers :
                    sampling.datasets[ds_name].given = sampling.dataset
        /\ sampling.pc = "raised" =>
              /\ sampling.exc = "ValueError"
              /\ sampling.sample_sizes[Current.name] > Len(FrameOf(Current))
              /\ sampling.datasets = EmptyDict

\* both rows of source A and the one row of source B were sampled
C14_Witness ==
    /\ sampling.pc = "returned"
    /\ Len(sampling.data_info) = 2
    /\ sampling.sample_sizes["A"] = 2
    /\ sampling.sample_sizes["B"] = 1
    /\ Len(sampling.dataset) = 3

\* the sizes and the exception that the loop of run takes from get_datasets
\* are those of the call followed row by row
SizesAgree ==
    sampling.pc \in {"returned", "raised"} =>
        LET sampled == get_datasets(sampling.data_info,
                                    DataFrames(sampling.data_info),
                                    sampling.sample_sizes)
        IN  /\ sampled.exc = sampling.exc
            /\ sampled.nrows = Len(sampling.dataset)
            /\ \A k \in DOMAIN sampled.sample_sizes :
                  sampling.sample_sizes[sampled.sample_sizes[k][1]]
                      = sampled.sample_sizes[k][2]

====
